---- MODULE Spec2Model ----
(***************************************************************************)
(* Model of the URL scoring pipeline of the phishing detector:             *)
(*   - the lexical URL analyzer   (src/features/enhanced_url_features.py)  *)
(*   - the content fetcher and the content feature extractor               *)
(*                                (src/features/content_features.py)       *)
(*   - artifact loading           (src/models/ensemble_classifier.py,      *)
(*                                 src/predict.py, src/api/predict.py)     *)
(*   - the fusion in classify_url (src/predict.py)                         *)
(*   - the fusion in predict      (src/api/predict.py)                     *)
(*   - the reputation report      (src/api/threat_intelligence.py)         *)
(*                                                                         *)
(* Numbers.  Python floats in [0,1] are fixed-point integers: 1.0 is Scale.*)
(* Every weight and threshold of the code is a multiple of 0.00001, so the *)
(* arithmetic below is exact.                                              *)
(*                                                                         *)
(* Dicts.  A Python dict is a record; a key the dict does not have is a    *)
(* field the record does not have (tested with DOMAIN).  A key whose value *)
(* is None holds the string "None" where the value is otherwise a string,  *)
(* and NoneDict where it is otherwise a dict.                              *)
(***************************************************************************)
EXTENDS Integers, Sequences, FiniteSets, TLC

Scale == 1000 * 100

Min(a, b) == IF a <= b THEN a ELSE b
Max(a, b) == IF a >= b THEN a ELSE b

NoneDict == [None |-> TRUE]

(***************************************************************************)
(* Bounds of the model.                                                    *)
(***************************************************************************)
\* security keywords found in a URL
MaxSecurityKeywords == 2
\* login keywords found in a URL
MaxLoginKeywords == 1
\* subdomain labels of a URL
MaxSubdomains == 2
\* special / encoded characters, digits in the domain
MaxCount == 1
\* scripts of a page matching the eval-like pattern
MaxEvalScripts == 1
\* scripts of a page matching the hex/unicode pattern
MaxHexScripts == 1
\* malicious / suspicious engines of a report
MaxDetections == 1
\* URLs of a batch
MaxBatch == 2
\* calls of train on one classifier
MaxTrainings == 2

(***************************************************************************)
(* Lexical URL analyzer: src/features/enhanced_url_features.py             *)
(***************************************************************************)

\* risk_weights, lines 274-287
risk_weights ==
  [ has_ip_address            |-> 70000,
    has_at_symbol             |-> 60000,
    has_double_slash_redirect |-> 50000,
    has_common_typos          |-> 80000,
    special_chars_count       |-> 1000,
    url_encoded_chars         |-> 3000,
    has_security_keywords     |-> 15000,
    has_login_keywords        |-> 10000,
    subdomain_count           |-> 10000,
    url_length                |-> 100,
    digits_in_domain          |-> 5000,
    domain_age_days           |-> -50 ]

\* "beyond 50", line 323
LengthThreshold == 50
\* line 333
AgeCap == 730
\* 0.95, line 338
ConfidenceCap == 95000

\* The keys of the feature dict that calculate_url_confidence reads.
ScoredKeys ==
  { "has_ip_address", "has_at_symbol", "has_double_slash_redirect",
    "has_common_typos", "special_chars_count", "url_encoded_chars",
    "has_security_keywords", "has_login_keywords", "subdomain_count",
    "url_length", "digits_in_domain", "domain_age_days" }

\* The except branch of extract_url_structure_features (lines 90-99): every
\* key, domain_age_days included, is 0.
DefaultFeatures == [k \in ScoredKeys |-> 0]

\* The kinds of host a URL names: a domain name, a literal IPv4 address
\* (with a port or without), a literal IPv6 address in brackets.
HostKinds == {"name", "ipv4", "ipv6"}

\* _is_ip_address(parsed.netloc), lines 103-112: the netloc is cut at its
\* first ":" before ipaddress.ip_address sees it, so that of "[::1]" only
\* "[" is left, which is no address.
is_ip_address(host) == IF host = "ipv4" THEN 1 ELSE 0

\* extract_url_structure_features (lines 28-101).  A URL is given by what
\* the parsing of its string yields: u.malformed when urlparse / tldextract
\* raises, and otherwise u.host, the kind of its host, and u.f, the other
\* values computed in the try block.
extract_url_structure_features(u) ==
  IF u.malformed THEN DefaultFeatures
  ELSE [ k \in ScoredKeys |->
           IF k = "has_ip_address" THEN is_ip_address(u.host) ELSE u.f[k] ]

\* The weighted sum before clamping, lines 290-334.
risk_score(f) ==
    (IF f.has_ip_address # 0 THEN risk_weights.has_ip_address ELSE 0)
  + (IF f.has_at_symbol # 0 THEN risk_weights.has_at_symbol ELSE 0)
  + (IF f.has_double_slash_redirect # 0
       THEN risk_weights.has_double_slash_redirect ELSE 0)
  + (IF f.has_common_typos # 0 THEN risk_weights.has_common_typos ELSE 0)
  + f.special_chars_count * risk_weights.special_chars_count
  + f.url_encoded_chars * risk_weights.url_encoded_chars
  + f.has_security_keywords * risk_weights.has_security_keywords
  + f.has_login_keywords * risk_weights.has_login_keywords
  + (IF f.subdomain_count > 1
       THEN (f.subdomain_count - 1) * risk_weights.subdomain_count ELSE 0)
  + (IF f.url_length > LengthThreshold
       THEN (f.url_length - LengthThreshold) * risk_weights.url_length ELSE 0)
  + f.digits_in_domain * risk_weights.digits_in_domain
  + (IF f.domain_age_days > 0
       THEN Min(f.domain_age_days, AgeCap) * risk_weights.domain_age_days
       ELSE 0)

\* A slip that caps the score at 1.0 instead of 0.95.
calculate_url_confidence_cap1(f) == Min(Scale, Max(0, risk_score(f)))

\* A scoring that does not cap the age at 2 years.
calculate_url_confidence_age_uncapped(f) ==
  Min(ConfidenceCap,
      Max(0, risk_score(f)
             + (IF f.domain_age_days > AgeCap
                  THEN (f.domain_age_days - AgeCap)
                       * risk_weights.domain_age_days
                  ELSE 0)))

\* calculate_url_confidence (lines 259-340): min(0.95, max(0, risk_score)).
calculate_url_confidence(f) == Min(ConfidenceCap, Max(0, risk_score(f)))

\* extract_url_features of src/predict.py (lines 126-146): the seven keys
\* kept for display, the confidence among them.
extract_url_features(u) ==
  LET features == extract_url_structure_features(u)
      confidence == calculate_url_confidence(features)
  IN [ has_ip_address        |-> features.has_ip_address,
       has_at_symbol         |-> features.has_at_symbol,
       has_common_typos      |-> features.has_common_typos,
       has_security_keywords |-> features.has_security_keywords,
       has_login_keywords    |-> features.has_login_keywords,
       domain_age_days       |-> features.domain_age_days,
       url_confidence_score  |-> confidence ]

(***************************************************************************)
(* The URLs the model is run on.                                           *)
(***************************************************************************)
\* _get_domain_age, enhanced_url_features.py lines 195-226: what a second
\* lookup of the same domain can return.  The age comes from a WHOIS query
\* and the clock; a query that fails gives -1, and one that succeeds after
\* a failed one gives an age.
get_domain_age_again(age, ages) ==
  IF age >= 0 THEN {age, -1} ELSE ages

\* The analyzer's inputs for a second run on the same URL string: the
\* string and what it contains are the same, the domain age is looked up
\* again (a malformed URL is never looked up, lines 90-99).
same_url_again(u, ages) ==
  IF u.malformed THEN {u}
  ELSE { [u EXCEPT !.f.domain_age_days = a] :
           a \in get_domain_age_again(u.f.domain_age_days, ages) }

DomainAges == {-1, 0, 200, AgeCap, 1000}
UrlLengths == {30, 60}

\* Every feature vector within the bounds (the lexical analyzer on its own).
FeatureVectors ==
  [ has_at_symbol             : {0, 1},
    has_double_slash_redirect : {0, 1},
    has_common_typos          : {0, 1},
    special_chars_count       : 0..MaxCount,
    url_encoded_chars         : 0..MaxCount,
    has_security_keywords     : 0..MaxSecurityKeywords,
    has_login_keywords        : 0..MaxLoginKeywords,
    subdomain_count           : 0..MaxSubdomains,
    url_length                : UrlLengths,
    digits_in_domain          : 0..MaxCount,
    domain_age_days           : DomainAges ]

\* The URLs of scoring requests: short URLs of unknown domain age that
\* differ in the host kind, the @ sign and the keywords they contain.
RequestFeatureVectors ==
  [ has_at_symbol             : {0, 1},
    has_double_slash_redirect : {0},
    has_common_typos          : {0},
    special_chars_count       : {0},
    url_encoded_chars         : {0},
    has_security_keywords     : 0..MaxSecurityKeywords,
    has_login_keywords        : 0..MaxLoginKeywords,
    subdomain_count           : {1},
    url_length                : {30},
    digits_in_domain          : {0},
    domain_age_days           : {-1} ]

WellFormed(H, S) ==
  { [malformed |-> FALSE, host |-> h, f |-> f] : h \in H, f \in S }
NoFeatures == [k \in ScoredKeys \ {"has_ip_address"} |-> 0]
MalformedUrl == [malformed |-> TRUE, host |-> "name", f |-> NoFeatures]

LexicalUrls == WellFormed(HostKinds, FeatureVectors) \cup {MalformedUrl}
RequestUrls ==
  WellFormed({"name", "ipv4"}, RequestFeatureVectors) \cup {MalformedUrl}
NoUrl == [malformed |-> FALSE, host |-> "name", f |-> NoFeatures]

(***************************************************************************)
(* Artifacts on disk and their loading.                                    *)
(***************************************************************************)
ArtifactFiles ==
  { "feature_transformer_binary.pkl", "feature_transformer.pkl",
    "binary_ensemble.pkl", "ensemble_model.pkl" }

\* FeaturePipeline.load_transformer, src/models/ensemble_classifier.py
\* lines 76-95: the transformer it leaves in self.transformer ("None" when
\* it returns False).
load_transformer(disk) ==
  IF "feature_transformer_binary.pkl" \in disk THEN "binary"
  ELSE IF "feature_transformer.pkl" \in disk THEN "standard"
  ELSE "None"

\* A loader that prefers the 3-class ensemble.
load_model_prefers_ensemble(disk) ==
  IF "ensemble_model.pkl" \in disk THEN "ensemble"
  ELSE IF "binary_ensemble.pkl" \in disk THEN "binary"
  ELSE "None"

\* PhishingEnsembleClassifier.load_model, lines 329-358: the model it leaves
\* in self.ensemble_model ("None" when it returns False).
load_model(disk) ==
  IF "binary_ensemble.pkl" \in disk THEN "binary"
  ELSE IF "ensemble_model.pkl" \in disk THEN "ensemble"
  ELSE "None"

\* load_model_and_pipeline, src/predict.py lines 22-41, as called at the
\* import of src/api/main.py, lines 60-69: FileNotFoundError when either
\* loader fails, and then classifier, pipeline = None, None.
load_model_and_pipeline(disk) ==
  IF load_transformer(disk) = "None" \/ load_model(disk) = "None"
    THEN [classifier |-> "None", pipeline |-> "None"]
    ELSE [classifier |-> load_model(disk), pipeline |-> load_transformer(disk)]

\* The module-level loading of src/api/predict.py, lines 30-74, over the
\* artifacts of ArtifactFiles.  joblib.load of a missing transformer raises
\* FileNotFoundError, and the handler then resets model to None.
api_load(disk) ==
  IF "binary_ensemble.pkl" \in disk
    THEN IF "feature_transformer_binary.pkl" \in disk
           THEN [model |-> "binary", feature_transformer |-> "binary",
                 model_name |-> "binary_ensemble"]
           ELSE [model |-> "None", feature_transformer |-> "None",
                 model_name |-> "none"]
  ELSE IF "ensemble_model.pkl" \in disk
    THEN IF "feature_transformer.pkl" \in disk
           THEN [model |-> "ensemble", feature_transformer |-> "standard",
                 model_name |-> "ensemble"]
           ELSE [model |-> "None", feature_transformer |-> "None",
                 model_name |-> "none"]
  ELSE [model |-> "None", feature_transformer |-> "None", model_name |-> "none"]

\* The number of classes of a loaded model: binary_ensemble.pkl is the
\* Legitimate/Malicious model, ensemble_model.pkl the 3-class ensemble
\* (ensemble_classifier.py lines 339-345).
n_classes(m) == IF m = "binary" THEN 2 ELSE 3

(***************************************************************************)
(* Content fetcher and content features:                                   *)
(* src/features/content_features.py                                        *)
(***************************************************************************)
\* ContentFetcher.__init__, line 15
max_retries == 2

ExternalDomainCounts == {5, 8}
ErrorStatuses == {404}

\* A response body.  A page is given by what the extractor counts in it.
NoHtml == [kind |-> "None"]
EmptyBody == [kind |-> "empty"]
Pages ==
  [ kind             : {"page"},
    external_domains : ExternalDomainCounts,
    eval_scripts     : 0..MaxEvalScripts,
    hex_scripts      : 0..MaxHexScripts ]

\* What one requests.get can do (lines 48-76).
AttemptOutcomes ==
       { [kind |-> "response", status |-> 200, body |-> b] :
            b \in Pages \cup {EmptyBody} }
  \cup { [kind |-> "response", status |-> s, body |-> EmptyBody] :
            s \in ErrorStatuses }
  \cup { [kind |-> "Timeout", status |-> 0, body |-> NoHtml],
         [kind |-> "ConnectionError", status |-> 0, body |-> NoHtml],
         [kind |-> "Exception", status |-> 0, body |-> NoHtml] }

\* The result dict before the first attempt, lines 36-44.  status_code None
\* is 0.
InitialFetchResult == [html |-> NoHtml, status_code |-> 0, error |-> "None"]

\* One iteration of the retry loop on result r, lines 48-76.
fetch_attempt(r, o) ==
  IF o.kind = "response"
    THEN IF o.status = 200
           THEN [r EXCEPT !.status_code = o.status, !.html = o.body]
           ELSE [r EXCEPT !.status_code = o.status, !.error = "HTTP Error"]
    ELSE IF o.kind = "Timeout" THEN [r EXCEPT !.error = "Timeout Error"]
    ELSE IF o.kind = "ConnectionError"
      THEN [r EXCEPT !.error = "Connection Error"]
    ELSE [r EXCEPT !.error = "Error"]

\* A loop without the break.
breaks_never(o) == FALSE

\* The loop leaves at the break of line 67.
breaks(o) == o.kind = "response" /\ o.status = 200

\* Python truthiness of result['html']: None and '' are false.
html_truthy(r) == r.html.kind = "page"

\* line 290
ObfuscationCap == 10
\* line 291
ObfuscationThreshold == 2
\* line 337
ExcessiveDomains == 5
\* line 278
EvalWeight == 3
\* line 281
HexWeight == 2

\* js_obfuscation_score before the cap, lines 271-288.
js_obfuscation_score(page) ==
  EvalWeight * page.eval_scripts + HexWeight * page.hex_scripts

\* The row of features_df for one fetch result, lines 144-151 and 226-348
\* (the columns the fusion reads or reports; the other columns start at 0 and are
\* filled from the page in the same way).
extract_content_features(r) ==
  IF html_truthy(r)
    THEN [ fetch_success         |-> 1,
           status_code           |-> r.status_code,
           js_obfuscation_score  |->
             Min(js_obfuscation_score(r.html), ObfuscationCap),
           has_obfuscated_js     |->
             IF js_obfuscation_score(r.html) > ObfuscationThreshold
               THEN 1 ELSE 0,
           external_domain_count |-> r.html.external_domains,
           has_excessive_domains |->
             IF r.html.external_domains > ExcessiveDomains THEN 1 ELSE 0 ]
    ELSE [ fetch_success         |-> 0,
           status_code           |-> r.status_code,
           js_obfuscation_score  |-> 0,
           has_obfuscated_js     |-> 0,
           external_domain_count |-> 0,
           has_excessive_domains |-> 0 ]

NoContentFeatures == extract_content_features(InitialFetchResult)

(***************************************************************************)
(* The classifier as the fusion sees it: predict and predict_proba of the  *)
(* loaded artifact.  Its output is any distribution of a grid; the label   *)
(* is the arg-max (soft voting), the first maximum on a tie.  The          *)
(* transformer or the model may also raise.                                *)
(***************************************************************************)
ProbGrid == {0, 5000, 30000, 70000, 75000}

Distributions(n) ==
  IF n = 2
    THEN { <<Scale - p, p>> : p \in ProbGrid }
    ELSE { <<Scale - pq[1] - pq[2], pq[1], pq[2]>> :
             pq \in { x \in ProbGrid \X ProbGrid : x[1] + x[2] <= Scale } }

ClassifierOutcomes(n) ==
       { [raises |-> TRUE, probabilities |-> <<>>] }
  \cup { [raises |-> FALSE, probabilities |-> d] : d \in Distributions(n) }

\* max(probabilities)
MaxProb(p) == CHOOSE m \in { p[i] : i \in DOMAIN p } :
                \A i \in DOMAIN p : p[i] <= m

\* The label predict returns: numpy's argmax, 0-based.
predict_label(p) ==
  (CHOOSE i \in DOMAIN p :
      /\ p[i] = MaxProb(p)
      /\ \A j \in DOMAIN p : p[j] = MaxProb(p) => i <= j) - 1

(***************************************************************************)
(* Fusion of src/predict.py                                                *)
(***************************************************************************)

\* class_mapping of classify_url, lines 100-104.
class_mapping(label) ==
  IF label = 0 THEN "Legitimate"
  ELSE IF label = 1 THEN "Credential Phishing"
  ELSE "Malware Distribution"

\* The probabilities dict of the result, lines 115-118.
probabilities_dict(p) ==
  [ name \in { class_mapping(i - 1) : i \in DOMAIN p } |->
      p[CHOOSE i \in DOMAIN p : class_mapping(i - 1) = name] ]

\* A fusion that looks at the lexical score before the class.
determine_threat_level_url_first(label, max_prob, url_features) ==
  IF url_features.url_confidence_score > 60000 THEN "medium"
  ELSE IF label = 2 THEN "high"
  ELSE IF label = 1 /\ max_prob > 70000 THEN "high"
  ELSE IF label = 1 THEN "medium"
  ELSE IF label = 0 /\ max_prob > 90000 THEN "safe"
  ELSE "low"

\* determine_threat_level, lines 238-270 (max_prob is max(probabilities)).
determine_threat_level(label, max_prob, url_features) ==
  IF label = 2 THEN "high"
  ELSE IF label = 1 /\ max_prob > 70000 THEN "high"
  ELSE IF label = 1 THEN "medium"
  ELSE IF url_features.url_confidence_score > 60000 THEN "medium"
  ELSE IF label = 0 /\ max_prob > 90000 THEN "safe"
  ELSE "low"

\* Thresholds with >= in place of >.
determine_threat_level_from_url_ge(url_features) ==
  LET score == url_features.url_confidence_score
  IN IF score >= 70000 THEN "high"
     ELSE IF score >= 40000 THEN "medium"
     ELSE "low"

\* determine_threat_level_from_url, lines 272-293.
determine_threat_level_from_url(url_features) ==
  LET score == url_features.url_confidence_score
  IN IF score > 70000 THEN "high"
     ELSE IF score > 40000 THEN "medium"
     ELSE "low"

\* calculate_final_confidence, lines 295-320: 0.7 * ml + 0.3 * url.
calculate_final_confidence(max_prob, url_features) ==
  (7 * max_prob + 3 * url_features.url_confidence_score) \div 10

\* classify_url, lines 76-86: the result when the fetch failed.
partial_result(url_features) ==
  [ error                |-> "Failed to fetch content",
    class                |-> "None",
    probabilities        |-> NoneDict,
    threat_level         |-> determine_threat_level_from_url(url_features),
    url_features         |-> url_features,
    url_confidence_score |-> url_features.url_confidence_score ]

\* classify_url, lines 88-124: the result from the classifier's output p.
scored_result(p, url_features) ==
  LET label == predict_label(p)
  IN [ class            |-> class_mapping(label),
       class_id         |-> label,
       probabilities    |-> probabilities_dict(p),
       threat_level     |->
         determine_threat_level(label, MaxProb(p), url_features),
       final_confidence |-> calculate_final_confidence(MaxProb(p), url_features),
       url_features     |-> url_features ]

\* classify_url, lines 43-124, from the fetched row on.  An exception of
\* pipeline.transform or model.predict is not caught here.
classify_url(u, content_features, clf) ==
  LET url_features == extract_url_features(u)
  IN IF content_features.fetch_success = 0 THEN partial_result(url_features)
     ELSE IF clf.raises THEN [raised |-> "ValueError"]
     ELSE scored_result(clf.probabilities, url_features)

(***************************************************************************)
(* Reputation report: src/api/threat_intelligence.py                       *)
(***************************************************************************)
HarmlessCounts == {0, 9}
UndetectedCounts == {0, 1}

\* last_analysis_stats of a VirusTotal answer.
AnalysisStats ==
  [ malicious  : 0..MaxDetections,
    suspicious : 0..MaxDetections,
    harmless   : HarmlessCounts,
    undetected : UndetectedCounts ]

\* The thresholds of lines 100 and 102 taken as >= instead of >.
vt_threat_level_ge(stats) ==
  LET total == stats.malicious + stats.suspicious
               + stats.harmless + stats.undetected
      risky == stats.malicious + stats.suspicious
  IN IF total > 0
       THEN IF 10 * risky >= 3 * total THEN "high"
            ELSE IF 10 * risky >= total THEN "medium"
            ELSE IF stats.malicious = 0 /\ stats.suspicious = 0 THEN "low"
            ELSE "suspicious"
       ELSE "unknown"

\* threat_level of _parse_url_response, lines 96-107.  risk_ratio > 0.3 is
\* 10 * (malicious + suspicious) > 3 * total.
vt_threat_level(stats) ==
  LET total == stats.malicious + stats.suspicious
               + stats.harmless + stats.undetected
      risky == stats.malicious + stats.suspicious
  IN IF total > 0
       THEN IF 10 * risky > 3 * total THEN "high"
            ELSE IF 10 * risky > total THEN "medium"
            ELSE IF stats.malicious = 0 /\ stats.suspicious = 0 THEN "low"
            ELSE "suspicious"
       ELSE "unknown"

\* _parse_url_response, lines 85-121.
parse_url_response(stats) ==
  [ status       |-> "success",
    malicious    |-> stats.malicious,
    suspicious   |-> stats.suspicious,
    harmless     |-> stats.harmless,
    undetected   |-> stats.undetected,
    total        |-> stats.malicious + stats.suspicious
                     + stats.harmless + stats.undetected,
    threat_level |-> vt_threat_level(stats) ]

\* What get_url_report returns, lines 18-65: a parsed report, the receipt
\* of submit_url, or an error dict.
UrlReports ==
       { parse_url_response(st) : st \in AnalysisStats }
  \cup { [status |-> "submitted"], [error |-> "API error"] }

\* What get_threat_intelligence returns, src/api/predict.py lines 175-194.
ThreatIntel ==
       { [url_analysis |-> r, provider |-> "virustotal"] : r \in UrlReports }
  \cup { [error |-> "exception", provider |-> "virustotal"] }

(***************************************************************************)
(* Fusion of src/api/predict.py                                            *)
(***************************************************************************)

\* class_mapping of get_ml_prediction, lines 141-147.
api_class_mapping(n, label) ==
  IF n = 2 THEN (IF label = 0 THEN "Legitimate" ELSE "Malicious")
  ELSE class_mapping(label)

api_probabilities_dict(p) ==
  [ name \in { api_class_mapping(Len(p), i - 1) : i \in DOMAIN p } |->
      p[CHOOSE i \in DOMAIN p : api_class_mapping(Len(p), i - 1) = name] ]

\* get_ml_prediction, lines 79-86: no model loaded.
default_prediction ==
  [ class_name    |-> "Legitimate",
    probabilities |-> [legitimate |-> 80000, phishing |-> 20000],
    warning       |-> "Using default prediction - ML model not available",
    model_used    |-> "none" ]

\* get_ml_prediction, lines 92-99: the fetch failed.
fetch_failed_prediction(name) ==
  [ class_name    |-> "Unknown",
    probabilities |-> [legitimate |-> 50000, phishing |-> 50000],
    warning       |-> "Content fetch failed - limited prediction available",
    model_used    |-> name ]

\* get_ml_prediction, lines 165-173: an exception of the transformer or the
\* model.
failed_prediction(name) ==
  [ class_name    |-> "Legitimate",
    probabilities |-> [legitimate |-> 70000, phishing |-> 30000],
    error         |-> "ML prediction failed",
    model_used    |-> name ]

\* get_ml_prediction, lines 76-173, from the fetched row on.
get_ml_prediction(name, content_features, clf) ==
  IF content_features.fetch_success = 0 THEN fetch_failed_prediction(name)
  ELSE IF clf.raises THEN failed_prediction(name)
  ELSE [ class_name       |->
           api_class_mapping(Len(clf.probabilities),
                             predict_label(clf.probabilities)),
         probabilities    |-> api_probabilities_dict(clf.probabilities),
         model_used       |-> name,
         content_features |-> content_features ]

\* str.lower() on the class names.
lower(name) ==
  CASE name = "Legitimate" -> "legitimate"
    [] name = "Malicious" -> "malicious"
    [] name = "Credential Phishing" -> "credential phishing"
    [] name = "Malware Distribution" -> "malware distribution"
    [] name = "Unknown" -> "unknown"
    [] OTHER -> name

\* max(probabilities.values()), 0 for an empty dict.
max_value(d) ==
  IF DOMAIN d = {} THEN 0
  ELSE CHOOSE m \in { d[k] : k \in DOMAIN d } : \A k \in DOMAIN d : d[k] <= m

\* threat_levels of calculate_combined_threat_level, line 218.
threat_levels == <<"unknown", "low", "suspicious", "medium", "high">>

\* threat_levels.index(x) if x in threat_levels else 0, lines 219-220.
level_index(x) ==
  IF \E i \in DOMAIN threat_levels : threat_levels[i] = x
    THEN (CHOOSE i \in DOMAIN threat_levels : threat_levels[i] = x) - 1
    ELSE 0

\* ml_threat of calculate_combined_threat_level, lines 200-209.
ml_threat_level(ml_prediction) ==
  LET ml_class == lower(ml_prediction.class_name)
      ml_confidence == max_value(ml_prediction.probabilities)
  IN IF ml_class \in {"phishing", "malware"} /\ ml_confidence > 70000
       THEN "high"
     ELSE IF ml_class \in {"phishing", "malware"} /\ ml_confidence > 50000
       THEN "medium"
     ELSE IF ml_class = "unknown" THEN "unknown"
     ELSE "low"

\* vt_threat of calculate_combined_threat_level, lines 212-215.
reported_threat_level(threat_intel) ==
  IF /\ "url_analysis" \in DOMAIN threat_intel
     /\ "status" \in DOMAIN threat_intel.url_analysis
     /\ threat_intel.url_analysis.status = "success"
    THEN threat_intel.url_analysis.threat_level
    ELSE "unknown"

\* A fusion in which the report's level replaces the model's level.
calculate_combined_threat_level_report_wins(ml_prediction, threat_intel) ==
  reported_threat_level(threat_intel)

\* calculate_combined_threat_level, lines 196-223.
calculate_combined_threat_level(ml_prediction, threat_intel) ==
  threat_levels[
    Max(level_index(ml_threat_level(ml_prediction)),
        level_index(reported_threat_level(threat_intel))) + 1]

\* vt_confidence of predict, lines 241-256.
vt_confidence(threat_intel) ==
  IF /\ "url_analysis" \in DOMAIN threat_intel
     /\ "status" \in DOMAIN threat_intel.url_analysis
     /\ threat_intel.url_analysis.status = "success"
     /\ threat_intel.url_analysis.total > 0
    THEN LET a == threat_intel.url_analysis
         IN IF 10 * (a.malicious + a.suspicious) > 3 * a.total THEN 90000
            ELSE IF 10 * (a.malicious + a.suspicious) > a.total THEN 70000
            ELSE IF 10 * a.harmless > 8 * a.total THEN 10000
            ELSE 50000
    ELSE 50000

\* predict, lines 225-271: the dict it returns, {**ml_result, ...} (the
\* timestamp and the confidence breakdown left out).
predict(ml_result, threat_intel) ==
  [ threat_level        |->
      calculate_combined_threat_level(ml_result, threat_intel),
    final_confidence    |->
      (6 * max_value(ml_result.probabilities)
         + 4 * vt_confidence(threat_intel)) \div 10,
    threat_intelligence |-> threat_intel ] @@ ml_result

(***************************************************************************)
(* The handler of POST /classify: src/api/main.py                          *)
(***************************************************************************)

\* api_classify_url, lines 411-441: the PredictionResult built from what
\* classify_url returned or raised.  A field left at its default None holds
\* "None" / NoneDict; final_confidence None is no field.
prediction_result(r) ==
  IF "raised" \in DOMAIN r
    THEN [ error         |-> "Error processing URL",
           class_name    |-> "None",
           probabilities |-> NoneDict,
           threat_level  |-> "None" ]
  ELSE IF "error" \in DOMAIN r
    THEN [ error                |-> r.error,
           class_name           |-> "None",
           probabilities        |-> NoneDict,
           threat_level         |-> r.threat_level,
           url_features         |-> r.url_features,
           url_confidence_score |-> r.url_confidence_score ]
  ELSE [ error            |-> "None",
         class_id         |-> r.class_id,
         class_name       |-> r.class,
         probabilities    |-> r.probabilities,
         threat_level     |-> r.threat_level,
         final_confidence |-> r.final_confidence,
         url_features     |-> r.url_features ]

\* api_classify_url, lines 380-381 and 436-441: no model loaded.
not_loaded_result ==
  [ error         |-> "Error processing URL: 500: Model not loaded",
    class_name    |-> "None",
    probabilities |-> NoneDict,
    threat_level  |-> "None" ]

(***************************************************************************)
(* FeaturePipeline: src/models/ensemble_classifier.py, lines 14-95         *)
(***************************************************************************)
\* A cell of the numeric column of a feature frame: a number or NaN.
Cell(v) == [nan |-> FALSE, v |-> v]
NaN == [nan |-> TRUE, v |-> 0]

\* The feature frames given to fit_transform and to transform: one numeric
\* column, two rows.
Frames ==
  { << Cell(0), Cell(4) >>, << Cell(4), Cell(4) >>, << Cell(0), NaN >> }

\* The numbers of a column that are not NaN.
present(X) == SelectSeq(X, LAMBDA c : ~c.nan)

\* The k-th smallest of the numbers of a column.
kth_smallest(X, k) ==
  CHOOSE v \in { X[i].v : i \in 1..Len(X) } :
    /\ Cardinality({ i \in 1..Len(X) : X[i].v < v }) < k
    /\ Cardinality({ i \in 1..Len(X) : X[i].v <= v }) >= k

\* SimpleImputer(strategy='median'), line 36: statistics_ of the column,
\* the median of its numbers that are not NaN.
median(X) ==
  LET P == present(X)
      n == Len(P)
  IN IF n % 2 = 1 THEN kth_smallest(P, (n + 1) \div 2) * Scale
     ELSE ((kth_smallest(P, n \div 2) + kth_smallest(P, n \div 2 + 1))
             * Scale) \div 2

\* The imputer's transform: NaN becomes the median it was fitted with.
impute(X, m) == [ i \in 1..Len(X) |-> IF X[i].nan THEN m ELSE X[i].v * Scale ]

RECURSIVE column_sum(_)
column_sum(s) == IF s = << >> THEN 0 ELSE Head(s) + column_sum(Tail(s))

\* The integer square root, by bisection of lo..hi.
RECURSIVE isqrt(_, _, _)
isqrt(v, lo, hi) ==
  IF lo = hi THEN lo
  ELSE LET mid == (lo + hi + 1) \div 2
       IN IF mid * mid <= v THEN isqrt(v, mid, hi) ELSE isqrt(v, lo, mid - 1)

\* StandardScaler(), line 37: mean_ and scale_ of the imputed column.
\* scale_ is the square root of the population variance, in thousandths,
\* and 1 where the variance is 0.
mean(Y) == column_sum(Y) \div Len(Y)
scale(Y) ==
  LET m == mean(Y)
      variance ==
        column_sum([ i \in 1..Len(Y) |-> ((Y[i] - m) \div 100) * ((Y[i] - m) \div 100) ])
          \div Len(Y)
      root == isqrt(variance, 0, 4 * 1000)
  IN IF root = 0 THEN 1000 ELSE root

\* self.transformer before any fit or load (line 18).
NoTransformer == [none |-> TRUE]

\* The Pipeline fit_transform fits on a frame (lines 35-44).
fit(X) ==
  LET m == median(X)
      Y == impute(X, m)
  IN [ median |-> m, mean |-> mean(Y), scale |-> scale(Y) ]

\* self.transformer.transform(features[numeric_features]), lines 70-71:
\* impute, then standardize.
transformer_transform(t, X) ==
  LET Y == impute(X, t.median)
  IN [ i \in 1..Len(X) |-> ((Y[i] - t.mean) * 1000) \div t.scale ]

\* What a FeaturePipeline method returns or raises.
Returned(ok, values) == [raised |-> "None", ok |-> ok, values |-> values]
Raised(e) == [raised |-> e, ok |-> FALSE, values |-> << >>]

\* A transform without the test of lines 54-55.
transform_unchecked(transformer, X) ==
  IF transformer = NoTransformer
    THEN Returned(TRUE, [ i \in 1..Len(X) |-> X[i].v * Scale ])
  ELSE Returned(TRUE, transformer_transform(transformer, X))

\* FeaturePipeline.transform, lines 52-74.
transform(transformer, X) ==
  IF transformer = NoTransformer THEN Raised("ValueError")
  ELSE Returned(TRUE, transformer_transform(transformer, X))

\* The transformer files of output_dir, and the content of a missing one.
TransformerFiles == { "feature_transformer_binary.pkl", "feature_transformer.pkl" }
NoFile == [missing |-> TRUE]

\* The fitted transformers a file of output_dir can hold.
Transformers == { fit(X) : X \in Frames }

\* The FeaturePipeline objects constructed on output_dir.
Pipelines == { "p1", "p2" }

\* No method of a FeaturePipeline has been called.
NoCall ==
  [ name |-> "None", self |-> "None", features |-> << >>,
    returned |-> Returned(FALSE, << >>) ]

\* No FeaturePipeline is at work.
NoFeaturePipeline ==
  [ disk         |-> [ f \in TransformerFiles |-> NoFile ],
    transformer  |-> [ p \in Pipelines |-> NoTransformer ],
    origin       |-> [ p \in Pipelines |-> "None" ],
    fit_by       |-> "None",
    loaded_since |-> {},
    op           |-> NoCall ]

(***************************************************************************)
(* PhishingEnsembleClassifier: src/models/ensemble_classifier.py,          *)
(* lines 97-358                                                            *)
(***************************************************************************)
\* model_types of __init__, line 98.
model_types == << "xgboost", "rf", "gb" >>

\* <model_type>_base_model.pkl, lines 256 and 349.
base_model_path(model_type) ==
  CASE model_type = "xgboost" -> "xgboost_base_model.pkl"
    [] model_type = "rf" -> "rf_base_model.pkl"
    [] model_type = "gb" -> "gb_base_model.pkl"

\* The files of the classifier's output_dir.
ModelFiles ==
  { "binary_ensemble.pkl", "ensemble_model.pkl" }
    \cup { base_model_path(model_types[i]) : i \in DOMAIN model_types }

\* The elements of a sequence of model types whose file is on disk, in
\* the order of the sequence (the loop of lines 347-352).
RECURSIVE load_base_models(_, _)
load_base_models(types, disk) ==
  IF types = << >> THEN << >>
  ELSE IF base_model_path(Head(types)) \in disk
    THEN << Head(types) >> \o load_base_models(Tail(types), disk)
  ELSE load_base_models(Tail(types), disk)

\* No method of the classifier has been called.
NoEvaluation == [raised |-> "None", names |-> << >>]

\* The classifier after __init__, lines 113-118, on an empty output_dir.
NoEnsembleClassifier ==
  [ disk           |-> {},
    base_models    |-> << >>,
    ensemble_model |-> "None",
    calls          |-> 0,
    evaluated      |-> NoEvaluation ]

(***************************************************************************)
(* State                                                                   *)
(***************************************************************************)
VARIABLES
  app,                 \* the program that runs: "main" (src/api/main.py),
                       \* "api" (src/api/predict.py) or "lexical" (the
                       \* analyzer called on its own)
  files,               \* the artifact files on disk
  classifier,          \* main.py: the model inside classifier, or "None"
  pipeline,            \* main.py: the transformer inside pipeline, or "None"
  model,               \* api/predict.py: model, or "None"
  feature_transformer, \* api/predict.py: feature_transformer, or "None"
  model_name,          \* api/predict.py: model_name
  vt_api,              \* api/predict.py: vt_api ("None" where not imported,
                       \* "ValueError" when its construction raised)
  pc,                  \* where the current request stands
  url,                 \* the URL of the current request
  attempt,             \* fetch_content: the loop variable
  sleeps,              \* fetch_content: the time.sleep(self.delay) calls made
  fetch_result,        \* fetch_content: result
  content_features,    \* the row of extract_content_features
  invoked,             \* which of transform / predict the request has called
  ml_result,           \* api/predict.py predict: ml_result
  result,              \* what classify_url / predict returned
  response,            \* what api_classify_url returned
  batch,               \* classify_batch: urls, content_features rows, results
  feature_pipeline,    \* FeaturePipeline objects on one output_dir, and its files
  ensemble_classifier  \* a PhishingEnsembleClassifier and the files of its output_dir

vars == << app, files, classifier, pipeline, model, feature_transformer,
           model_name, vt_api, pc, url, attempt, sleeps, fetch_result,
           content_features, invoked, ml_result, result, response, batch,
           feature_pipeline, ensemble_classifier >>

loaded == << app, files, classifier, pipeline, model, feature_transformer,
             model_name, vt_api >>

NoResult == [none |-> TRUE]

\* No batch in progress.
NoBatch ==
  [ urls |-> << >>, rows |-> << >>, clfs |-> << >>, results |-> << >>,
    raised |-> FALSE ]

\* No request in progress.
Idle ==
  /\ url = NoUrl
  /\ attempt = 0
  /\ sleeps = 0
  /\ fetch_result = InitialFetchResult
  /\ content_features = NoContentFeatures
  /\ invoked = {}
  /\ ml_result = NoResult
  /\ result = NoResult
  /\ response = NoResult
  /\ feature_pipeline = NoFeaturePipeline
  /\ ensemble_classifier = NoEnsembleClassifier
  /\ batch = NoBatch

\* src/api/main.py after its import (lines 60-69).
InitMain ==
  /\ app = "main"
  /\ files \in SUBSET ArtifactFiles
  /\ classifier = load_model_and_pipeline(files).classifier
  /\ pipeline = load_model_and_pipeline(files).pipeline
  /\ model = "None" /\ feature_transformer = "None" /\ model_name = "none"
  /\ vt_api = "None"
  /\ pc = "ready"
  /\ Idle

\* src/api/predict.py after its import (lines 22-74).  VirusTotalAPI()
\* raises ValueError without an API key (threat_intelligence.py lines
\* 15-16), and the import fails with it.
InitApi ==
  /\ app = "api"
  /\ files \in SUBSET ArtifactFiles
  /\ classifier = "None" /\ pipeline = "None"
  /\ \/ /\ vt_api = "client"
        /\ model = api_load(files).model
        /\ feature_transformer = api_load(files).feature_transformer
        /\ model_name = api_load(files).model_name
        /\ pc = "ready"
     \/ /\ vt_api = "ValueError"
        /\ model = "None" /\ feature_transformer = "None"
        /\ model_name = "none"
        /\ pc = "import_failed"
  /\ Idle

Init == InitMain \/ InitApi

(***************************************************************************)
(* Actions                                                                 *)
(***************************************************************************)

\* api_classify_url without a loaded model: HTTPException, caught by the
\* handler's own except (main.py lines 380-381, 436-441).
ApiClassifyUrlNotLoaded ==
  /\ app = "main" /\ pc = "ready"
  /\ classifier = "None" \/ pipeline = "None"
  /\ response' = not_loaded_result
  /\ pc' = "done"
  /\ UNCHANGED << loaded, ensemble_classifier, feature_pipeline, batch, url, attempt, sleeps, fetch_result, content_features,
                  invoked, ml_result, result >>

\* api_classify_url calls classify_url(url, classifier, pipeline), which
\* starts with the fetch (main.py line 387, predict.py line 68).
ClassifyUrlStart(u) ==
  /\ app = "main" /\ pc = "ready"
  /\ classifier # "None" /\ pipeline # "None"
  /\ url' = u
  /\ attempt' = 0
  /\ sleeps' = 0
  /\ fetch_result' = InitialFetchResult
  /\ pc' = "fetch"
  /\ UNCHANGED << loaded, ensemble_classifier, feature_pipeline, batch, content_features, invoked, ml_result, result,
                  response >>

\* One iteration of the retry loop of fetch_content (content_features.py
\* lines 47-80): the attempt, then the break or the next iteration.
FetchAttempt(o) ==
  /\ pc = "fetch"
  /\ attempt <= max_retries
  /\ fetch_result' = fetch_attempt(fetch_result, o)
  /\ IF breaks(o) \/ attempt = max_retries
       THEN pc' = "fetched" /\ attempt' = attempt
       ELSE pc' = "fetch" /\ attempt' = attempt + 1
  /\ sleeps' = IF ~breaks(o) /\ attempt < max_retries
                 THEN sleeps + 1 ELSE sleeps
  /\ UNCHANGED << loaded, ensemble_classifier, feature_pipeline, batch, url, content_features, invoked, ml_result, result,
                  response >>

\* The rest of classify_url (predict.py lines 71-124), and the
\* PredictionResult api_classify_url builds from it (main.py lines 411-441).
\* The fetch result does not outlive extract_content_features.
ClassifyUrlReturn(clf) ==
  /\ app = "main" /\ pc = "fetched"
  /\ content_features' = extract_content_features(fetch_result)
  /\ fetch_result' = InitialFetchResult
  /\ result' = classify_url(url, content_features', clf)
  /\ invoked' = IF content_features'.fetch_success = 0 THEN {}
                ELSE IF clf.raises THEN {"transform"}
                ELSE {"transform", "predict"}
  /\ response' = prediction_result(result')
  /\ pc' = "done"
  /\ UNCHANGED << loaded, ensemble_classifier, feature_pipeline, batch, url, attempt, sleeps, ml_result >>

\* predict -> get_ml_prediction without a model (api/predict.py lines
\* 79-86): the default prediction, nothing fetched.
GetMlPredictionNoModel ==
  /\ app = "api" /\ pc = "ready"
  /\ model = "None" \/ feature_transformer = "None"
  /\ ml_result' = default_prediction
  /\ pc' = "ml_done"
  /\ UNCHANGED << loaded, ensemble_classifier, feature_pipeline, batch, url, attempt, sleeps, fetch_result, content_features,
                  invoked, result, response >>

\* predict -> get_ml_prediction with a model: the fetch starts (line 90).
PredictStart ==
  /\ app = "api" /\ pc = "ready"
  /\ model # "None" /\ feature_transformer # "None"
  /\ attempt' = 0
  /\ sleeps' = 0
  /\ fetch_result' = InitialFetchResult
  /\ pc' = "fetch"
  /\ UNCHANGED << loaded, ensemble_classifier, feature_pipeline, batch, url, content_features, invoked, ml_result, result,
                  response >>

\* The rest of get_ml_prediction (lines 92-173).
GetMlPrediction(clf) ==
  /\ app = "api" /\ pc = "fetched"
  /\ content_features' = extract_content_features(fetch_result)
  /\ fetch_result' = InitialFetchResult
  /\ ml_result' = get_ml_prediction(model_name, content_features', clf)
  /\ invoked' = IF content_features'.fetch_success = 0 THEN {}
                ELSE IF clf.raises THEN {"transform"}
                ELSE {"transform", "predict"}
  /\ pc' = "ml_done"
  /\ UNCHANGED << loaded, ensemble_classifier, feature_pipeline, batch, url, attempt, sleeps, result, response >>

\* The rest of predict: the reputation lookup and the fusion (lines
\* 232-271).
PredictReturn(ti) ==
  /\ app = "api" /\ pc = "ml_done"
  /\ result' = predict(ml_result, ti)
  /\ pc' = "done"
  /\ UNCHANGED << loaded, ensemble_classifier, feature_pipeline, batch, url, attempt, sleeps, fetch_result, content_features,
                  invoked, ml_result, response >>

\* The request is over; the loaded objects stay.
Finish ==
  /\ pc = "done"
  /\ pc' = "ready"
  /\ url' = NoUrl
  /\ attempt' = 0
  /\ sleeps' = 0
  /\ fetch_result' = InitialFetchResult
  /\ content_features' = NoContentFeatures
  /\ invoked' = {}
  /\ ml_result' = NoResult
  /\ result' = NoResult
  /\ response' = NoResult
  /\ UNCHANGED << loaded, ensemble_classifier, feature_pipeline, batch >>

Next ==
  \/ ApiClassifyUrlNotLoaded
  \/ \E u \in RequestUrls : ClassifyUrlStart(u)
  \/ \E o \in AttemptOutcomes : FetchAttempt(o)
  \/ \E clf \in ClassifierOutcomes(n_classes(classifier)) :
       ClassifyUrlReturn(clf)
  \/ GetMlPredictionNoModel
  \/ PredictStart
  \/ \E clf \in ClassifierOutcomes(n_classes(model)) : GetMlPrediction(clf)
  \/ \E ti \in ThreatIntel : PredictReturn(ti)
  \/ Finish

Spec == Init /\ [][Next]_vars

(***************************************************************************)
(* The lexical analyzer on its own, over every feature vector.             *)
(***************************************************************************)
InitLexical ==
  /\ app = "lexical"
  /\ files = {}
  /\ classifier = "None" /\ pipeline = "None"
  /\ model = "None" /\ feature_transformer = "None" /\ model_name = "none"
  /\ vt_api = "None"
  /\ pc = "ready"
  /\ url \in LexicalUrls
  /\ attempt = 0
  /\ sleeps = 0
  /\ fetch_result = InitialFetchResult
  /\ content_features = NoContentFeatures
  /\ invoked = {}
  /\ ml_result = NoResult
  /\ result = NoResult
  /\ response = NoResult
  /\ feature_pipeline = NoFeaturePipeline
  /\ ensemble_classifier = NoEnsembleClassifier
  /\ batch = NoBatch

\* extract_url_features(url), src/predict.py lines 126-146.
ExtractUrlFeatures ==
  /\ app = "lexical" /\ pc = "ready"
  /\ result' = [url_features |-> extract_url_features(url)]
  /\ pc' = "done"
  /\ UNCHANGED << loaded, ensemble_classifier, feature_pipeline, batch, url, attempt, sleeps, fetch_result, content_features,
                  invoked, ml_result, response >>

\* classify_url(url, model, pipeline) of src/predict.py with no network
\* access (lines 67-86): every attempt of the fetch fails, the row has
\* fetch_success 0, and the result is built from the URL alone.
ClassifyUrlNoNetwork ==
  /\ app = "lexical" /\ pc = "ready"
  /\ content_features' = NoContentFeatures
  /\ result' = partial_result(extract_url_features(url))
  /\ pc' = "done"
  /\ UNCHANGED << loaded, ensemble_classifier, feature_pipeline, batch, url, attempt, sleeps, fetch_result, invoked, ml_result,
                  response >>

NextLexical == ExtractUrlFeatures \/ ClassifyUrlNoNetwork

SpecLexical == InitLexical /\ [][NextLexical]_vars

(***************************************************************************)
(* ContentFetcher.fetch_content called on its own.                         *)
(***************************************************************************)
\* fetch_content(url) at the top of its retry loop (content_features.py
\* lines 28-46).
InitFetch ==
  /\ app = "fetch"
  /\ files = {}
  /\ classifier = "None" /\ pipeline = "None"
  /\ model = "None" /\ feature_transformer = "None" /\ model_name = "none"
  /\ vt_api = "None"
  /\ pc = "fetch"
  /\ url \in RequestUrls
  /\ attempt = 0
  /\ sleeps = 0
  /\ fetch_result = InitialFetchResult
  /\ content_features = NoContentFeatures
  /\ invoked = {}
  /\ ml_result = NoResult
  /\ result = NoResult
  /\ response = NoResult
  /\ feature_pipeline = NoFeaturePipeline
  /\ ensemble_classifier = NoEnsembleClassifier
  /\ batch = NoBatch

NextFetch == \E o \in AttemptOutcomes : FetchAttempt(o)

\* requests.get returns or raises within its timeout, so the loop always
\* takes its next step.
SpecFetch == InitFetch /\ [][NextFetch]_vars /\ WF_vars(NextFetch)

(***************************************************************************)
(* classify_batch of src/predict.py.                                       *)
(***************************************************************************)
\* The URLs batches are made of: a named host and a literal IPv4 host
\* without keywords.
BatchUrls ==
  { u \in RequestUrls :
      /\ ~u.malformed
      /\ u.f.has_at_symbol = 0
      /\ u.f.has_security_keywords = 0
      /\ u.f.has_login_keywords = 0 }

SeqsUpTo(S, n) == UNION { [1..k -> S] : k \in 1..n }

\* What fetch_content returns to fetch_multiple for one URL
\* (content_features.py lines 84-111) when every attempt ends alike: a
\* timeout, a 404, or a page with status 200.
BatchFetchResults ==
  { fetch_attempt(InitialFetchResult, o) :
      o \in { a \in AttemptOutcomes :
                \/ a.kind = "Timeout"
                \/ a.kind = "response" /\ a.status # 200
                \/ /\ a.kind = "response" /\ a.status = 200
                   /\ a.body \in Pages
                   /\ a.body.external_domains = ExcessiveDomains
                   /\ a.body.eval_scripts = 0 /\ a.body.hex_scripts = 0 } }

\* The classifier is not called for a row with fetch_success 0.
NotInvoked == [raises |-> FALSE, probabilities |-> << >>]

\* classify_batch, lines 184-194: the result of a URL whose fetch failed.
batch_partial_result(u) ==
  LET url_features == extract_url_features(u)
  IN [ url                  |-> u,
       error                |-> "Failed to fetch content",
       class                |-> "None",
       probabilities        |-> NoneDict,
       threat_level         |-> determine_threat_level_from_url(url_features),
       url_features         |-> url_features,
       url_confidence_score |-> url_features.url_confidence_score ]

\* classify_batch, lines 197-234: the result of a URL from the
\* classifier's output p.
batch_scored_result(u, p) ==
  LET url_features == extract_url_features(u)
      label == predict_label(p)
  IN [ url              |-> u,
       class            |-> class_mapping(label),
       class_id         |-> label,
       probabilities    |-> probabilities_dict(p),
       threat_level     |->
         determine_threat_level(label, MaxProb(p), url_features),
       final_confidence |->
         calculate_final_confidence(MaxProb(p), url_features),
       url_features     |-> url_features ]

\* classify_batch(urls, model, pipeline) is called with a loaded model
\* (main.py lines 476-485).
InitBatch ==
  /\ app = "batch"
  /\ files = ArtifactFiles
  /\ classifier = load_model_and_pipeline(files).classifier
  /\ pipeline = load_model_and_pipeline(files).pipeline
  /\ model = "None" /\ feature_transformer = "None" /\ model_name = "none"
  /\ vt_api = "None"
  /\ pc = "batch_fetch"
  /\ url = NoUrl
  /\ attempt = 0
  /\ sleeps = 0
  /\ fetch_result = InitialFetchResult
  /\ content_features = NoContentFeatures
  /\ invoked = {}
  /\ ml_result = NoResult
  /\ result = NoResult
  /\ response = NoResult
  /\ feature_pipeline = NoFeaturePipeline
  /\ ensemble_classifier = NoEnsembleClassifier
  /\ \E us \in SeqsUpTo(BatchUrls, MaxBatch) :
       batch = [NoBatch EXCEPT !.urls = us]

\* extract_content_features(urls) inside classify_batch (line 173): the
\* row of the next URL, in the order of the futures (fetch_multiple lines
\* 89-94).
BatchFetch(r) ==
  /\ app = "batch" /\ pc = "batch_fetch"
  /\ batch' = [batch EXCEPT !.rows = Append(@, extract_content_features(r))]
  /\ pc' = IF Len(batch'.rows) = Len(batch.urls)
             THEN "batch_score" ELSE "batch_fetch"
  /\ UNCHANGED << loaded, ensemble_classifier, feature_pipeline, url, attempt, sleeps, fetch_result,
                  content_features, invoked, ml_result, result, response >>

\* One iteration of the loop of classify_batch (lines 179-234).  An
\* exception of pipeline.transform or model.predict is not caught: it
\* leaves classify_batch, and the results built so far go with it.
BatchScore(clf) ==
  /\ app = "batch" /\ pc = "batch_score"
  /\ LET i == Len(batch.results) + 1
         u == batch.urls[i]
     IN /\ IF batch.rows[i].fetch_success = 0
             THEN batch' =
                    [batch EXCEPT
                       !.results = Append(@, batch_partial_result(u)),
                       !.clfs = Append(@, NotInvoked)]
           ELSE IF clf.raises
             THEN batch' = [batch EXCEPT !.results = << >>,
                                         !.clfs = Append(@, clf),
                                         !.raised = TRUE]
           ELSE batch' =
                  [batch EXCEPT
                     !.results =
                       Append(@, batch_scored_result(u, clf.probabilities)),
                     !.clfs = Append(@, clf)]
        /\ pc' = IF batch'.raised \/ i = Len(batch.urls)
                   THEN "done" ELSE "batch_score"
  /\ UNCHANGED << loaded, ensemble_classifier, feature_pipeline, url, attempt, sleeps, fetch_result,
                  content_features, invoked, ml_result, result, response >>

NextBatch ==
  \/ \E r \in BatchFetchResults : BatchFetch(r)
  \/ \E clf \in ClassifierOutcomes(n_classes(classifier)) : BatchScore(clf)

SpecBatch == InitBatch /\ [][NextBatch]_vars

(***************************************************************************)
(* FeaturePipeline objects on one output_dir                               *)
(***************************************************************************)
\* The files of output_dir that exist.
existing(disk) == { f \in TransformerFiles : disk[f] # NoFile }

\* The pipelines are constructed (lines 15-19) on an output_dir that holds
\* any transformer files, left there by earlier trainings.
InitPipeline ==
  /\ app = "pipeline"
  /\ files = {}
  /\ classifier = "None" /\ pipeline = "None"
  /\ model = "None" /\ feature_transformer = "None" /\ model_name = "none"
  /\ vt_api = "None"
  /\ pc = "ready"
  /\ url = NoUrl
  /\ attempt = 0
  /\ sleeps = 0
  /\ fetch_result = InitialFetchResult
  /\ content_features = NoContentFeatures
  /\ invoked = {}
  /\ ml_result = NoResult
  /\ result = NoResult
  /\ response = NoResult
  /\ batch = NoBatch
  /\ ensemble_classifier = NoEnsembleClassifier
  /\ \E disk \in [TransformerFiles -> Transformers \cup {NoFile}] :
       feature_pipeline = [NoFeaturePipeline EXCEPT !.disk = disk]

\* FeaturePipeline.fit_transform, lines 21-50: fits a new transformer,
\* keeps it in self.transformer, writes it to feature_transformer.pkl and
\* returns the transformed frame.
FitTransform(p, X) ==
  /\ app = "pipeline"
  /\ feature_pipeline' =
       [ feature_pipeline EXCEPT
           !.transformer[p] = fit(X),
           !.disk["feature_transformer.pkl"] = fit(X),
           !.origin[p] = "fit_transform",
           !.fit_by = p,
           !.loaded_since = {},
           !.op = [ name |-> "fit_transform", self |-> p, features |-> X,
                    returned |->
                      Returned(TRUE, transformer_transform(fit(X), X)) ] ]
  /\ UNCHANGED << loaded, ensemble_classifier, batch, pc, url, attempt, sleeps,
                  fetch_result,
                  content_features, invoked, ml_result, result, response >>

\* FeaturePipeline.transform, lines 52-74.
Transform(p, X) ==
  /\ app = "pipeline"
  /\ feature_pipeline' =
       [ feature_pipeline EXCEPT
           !.op = [ name |-> "transform", self |-> p, features |-> X,
                    returned |->
                      transform(feature_pipeline.transformer[p], X) ] ]
  /\ UNCHANGED << loaded, ensemble_classifier, batch, pc, url, attempt, sleeps,
                  fetch_result,
                  content_features, invoked, ml_result, result, response >>

\* FeaturePipeline.load_transformer, lines 76-95: the binary file first,
\* then the standard one, and False without either.
LoadTransformer(p) ==
  /\ app = "pipeline"
  /\ LET which == load_transformer(existing(feature_pipeline.disk))
         path == IF which = "binary" THEN "feature_transformer_binary.pkl"
                 ELSE "feature_transformer.pkl"
     IN feature_pipeline' =
          IF which = "None"
            THEN [ feature_pipeline EXCEPT
                     !.op = [ name |-> "load_transformer", self |-> p,
                              features |-> << >>,
                              returned |-> Returned(FALSE, << >>) ] ]
            ELSE [ feature_pipeline EXCEPT
                     !.transformer[p] = feature_pipeline.disk[path],
                     !.origin[p] = "load_transformer",
                     !.loaded_since = @ \cup {p},
                     !.op = [ name |-> "load_transformer", self |-> p,
                              features |-> << >>,
                              returned |-> Returned(TRUE, << >>) ] ]
  /\ UNCHANGED << loaded, ensemble_classifier, batch, pc, url, attempt, sleeps,
                  fetch_result,
                  content_features, invoked, ml_result, result, response >>

NextPipeline ==
  \/ \E p \in Pipelines, X \in Frames : FitTransform(p, X)
  \/ \E p \in Pipelines, X \in Frames : Transform(p, X)
  \/ \E p \in Pipelines : LoadTransformer(p)

SpecPipeline == InitPipeline /\ [][NextPipeline]_vars

(***************************************************************************)
(* predict_enhanced_with_explanation: src/api/predict.py, lines 371-492    *)
(***************************************************************************)
\* The exception of `await predict(url)`, line 476: predict is a plain
\* function (line 225) and the dict it returns is not awaitable.  A message
\* is given with the groups of terms of lines 452-463 it contains.
AwaitTypeError ==
  [ text  |-> "object dict can't be used in 'await' expression",
    terms |-> {} ]

\* `await value` for a value that is a dict.
await_dict(value) == [raised |-> AwaitTypeError]

\* get_detailed_error_explanation, lines 371-468: the 'reason' of the
\* explanation chosen for a message.
get_detailed_error_explanation(message) ==
  IF "dns" \in message.terms THEN "Domain Resolution Failed"
  ELSE IF "timeout" \in message.terms THEN "Connection Timeout"
  ELSE IF "refused" \in message.terms THEN "Connection Refused"
  ELSE IF "ssl" \in message.terms THEN "SSL/Security Certificate Error"
  ELSE IF "http" \in message.terms THEN "HTTP Error Response"
  ELSE IF "malformed" \in message.terms THEN "Invalid URL Format"
  ELSE "Analysis Failed"

\* predict_enhanced_with_explanation, lines 471-492, given what predict
\* returned (final_confidence None is no field).
predict_enhanced_with_explanation(u, predicted) ==
  LET awaited == await_dict(predicted)
  IN IF "raised" \in DOMAIN awaited
       THEN [ url             |-> u,
              class_name      |-> "Unknown",
              threat_level    |-> "unknown",
              probabilities   |-> NoneDict,
              error           |-> awaited.raised.text,
              error_details   |-> get_detailed_error_explanation(awaited.raised),
              analysis_status |-> "failed" ]
       ELSE awaited

\* What get_ml_prediction can return with the loaded model (lines 76-173).
MlPredictions ==
  IF model = "None" \/ feature_transformer = "None"
    THEN { default_prediction }
    ELSE { get_ml_prediction(model_name, extract_content_features(r), clf) :
             r \in BatchFetchResults,
             clf \in ClassifierOutcomes(n_classes(model)) }

\* src/api/predict.py after its import, before a call of
\* predict_enhanced_with_explanation(url).
InitEnhanced ==
  /\ app = "enhanced"
  /\ files \in SUBSET ArtifactFiles
  /\ classifier = "None" /\ pipeline = "None"
  /\ vt_api = "client"
  /\ model = api_load(files).model
  /\ feature_transformer = api_load(files).feature_transformer
  /\ model_name = api_load(files).model_name
  /\ pc = "ready"
  /\ url \in BatchUrls
  /\ attempt = 0
  /\ sleeps = 0
  /\ fetch_result = InitialFetchResult
  /\ content_features = NoContentFeatures
  /\ invoked = {}
  /\ ml_result = NoResult
  /\ result = NoResult
  /\ response = NoResult
  /\ feature_pipeline = NoFeaturePipeline
  /\ ensemble_classifier = NoEnsembleClassifier
  /\ batch = NoBatch

\* predict(url), called at line 476, returns (lines 225-271).
EnhancedPredict(ml, ti) ==
  /\ app = "enhanced" /\ pc = "ready"
  /\ ml_result' = ml
  /\ result' = predict(ml, ti)
  /\ pc' = "predicted"
  /\ UNCHANGED << loaded, ensemble_classifier, feature_pipeline, batch, url, attempt, sleeps,
                  fetch_result, content_features, invoked, response >>

\* The await of line 476 and the return of line 477 or of lines 479-492.
EnhancedReturn ==
  /\ app = "enhanced" /\ pc = "predicted"
  /\ response' = predict_enhanced_with_explanation(url, result)
  /\ pc' = "done"
  /\ UNCHANGED << loaded, ensemble_classifier, feature_pipeline, batch, url, attempt, sleeps,
                  fetch_result, content_features, invoked, ml_result,
                  result >>

NextEnhanced ==
  \/ \E ml \in MlPredictions, ti \in ThreatIntel : EnhancedPredict(ml, ti)
  \/ EnhancedReturn

SpecEnhanced == InitEnhanced /\ [][NextEnhanced]_vars

(***************************************************************************)
(* One PhishingEnsembleClassifier and its output_dir                       *)
(***************************************************************************)
\* The classifier is constructed (lines 98-118) on an output_dir that
\* holds any model files, left there by earlier trainings.
InitClassifier ==
  /\ app = "classifier"
  /\ files = {}
  /\ classifier = "None" /\ pipeline = "None"
  /\ model = "None" /\ feature_transformer = "None" /\ model_name = "none"
  /\ vt_api = "None"
  /\ pc = "ready"
  /\ url = NoUrl
  /\ attempt = 0
  /\ sleeps = 0
  /\ fetch_result = InitialFetchResult
  /\ content_features = NoContentFeatures
  /\ invoked = {}
  /\ ml_result = NoResult
  /\ result = NoResult
  /\ response = NoResult
  /\ batch = NoBatch
  /\ feature_pipeline = NoFeaturePipeline
  /\ \E disk \in SUBSET ModelFiles :
       ensemble_classifier = [NoEnsembleClassifier EXCEPT !.disk = disk]

\* PhishingEnsembleClassifier.train, lines 191-278: every base model is
\* fitted, written to its file and appended to self.base_models (lines
\* 211-261), then the ensemble is fitted and written (lines 263-276).
Train ==
  /\ app = "classifier"
  /\ ensemble_classifier.calls < MaxTrainings
  /\ ensemble_classifier' =
       [ ensemble_classifier EXCEPT
           !.base_models = @ \o model_types,
           !.ensemble_model = "ensemble",
           !.disk = @ \cup { base_model_path(model_types[i]) :
                               i \in DOMAIN model_types }
                      \cup { "ensemble_model.pkl" },
           !.calls = @ + 1 ]
  /\ UNCHANGED << loaded, feature_pipeline, batch, pc, url, attempt, sleeps,
                  fetch_result, content_features, invoked, ml_result, result,
                  response >>

\* PhishingEnsembleClassifier.load_model, lines 329-358.  Without a model
\* file it returns False and leaves the classifier as it was.
LoadModel ==
  /\ app = "classifier"
  /\ LET which == load_model(ensemble_classifier.disk)
     IN ensemble_classifier' =
          IF which = "binary"
            THEN [ ensemble_classifier EXCEPT
                     !.ensemble_model = "binary",
                     !.base_models = << >> ]
          ELSE IF which = "ensemble"
            THEN [ ensemble_classifier EXCEPT
                     !.ensemble_model = "ensemble",
                     !.base_models =
                       load_base_models(model_types, ensemble_classifier.disk) ]
          ELSE ensemble_classifier
  /\ UNCHANGED << loaded, feature_pipeline, batch, pc, url, attempt, sleeps,
                  fetch_result, content_features, invoked, ml_result, result,
                  response >>

\* PhishingEnsembleClassifier.evaluate, lines 294-327: the names it prints
\* for the base models, self.model_types[i] for the i-th of them (lines
\* 322-325), or the exception that ends it.
Evaluate ==
  /\ app = "classifier"
  /\ ensemble_classifier' =
       [ ensemble_classifier EXCEPT
           !.evaluated =
             IF ensemble_classifier.ensemble_model = "None"
               THEN [raised |-> "ValueError", names |-> << >>]
             ELSE IF Len(ensemble_classifier.base_models) > Len(model_types)
               THEN [raised |-> "IndexError", names |-> model_types]
             ELSE [ raised |-> "None",
                    names  |-> SubSeq(model_types, 1,
                                      Len(ensemble_classifier.base_models)) ] ]
  /\ UNCHANGED << loaded, feature_pipeline, batch, pc, url, attempt, sleeps,
                  fetch_result, content_features, invoked, ml_result, result,
                  response >>

NextClassifier == Train \/ LoadModel \/ Evaluate

SpecClassifier == InitClassifier /\ [][NextClassifier]_vars

(***************************************************************************)
(* Properties                                                              *)
(***************************************************************************)

\* C1: for every URL and every outcome of the fetch, the normalization,
\* the classifier and the reputation lookup, classify_url returns a verdict
\* whose threat_level is one of safe, low, medium, high and whose
\* final_confidence is a number in [0, 1]; no exception escapes.
C1_ClassifyUrlTotal ==
  (pc = "done" /\ result # NoResult) =>
    /\ "raised" \notin DOMAIN result
    /\ result.threat_level \in {"safe", "low", "medium", "high"}
    /\ "final_confidence" \in DOMAIN result
    /\ result.final_confidence \in 0..Scale

\* C2: whenever the fetch succeeded and the classifier predicts the
\* Malware Distribution class, the verdict's threat_level is "high",
\* whatever the class probabilities and the lexical confidence.
C2_MalwareIsHigh ==
  ( /\ pc = "done" /\ result # NoResult
    /\ content_features.fetch_success = 1
    /\ invoked = {"transform", "predict"}
    /\ \/ "class" \in DOMAIN result
          /\ result.class = "Malware Distribution"
       \/ "class_name" \in DOMAIN result
          /\ result.class_name = "Malware Distribution" )
  => result.threat_level = "high"

\* C3: when the content fetch fails, threat_level is a function of the
\* lexical confidence score alone: "high" if score > 0.7, "medium" if
\* 0.4 < score <= 0.7, "low" otherwise.
C3_FetchFailedLevelFromScore ==
  ( /\ app = "main" /\ pc = "done" /\ result # NoResult
    /\ content_features.fetch_success = 0 )
  => LET score ==
           calculate_url_confidence(extract_url_structure_features(url))
     IN result.threat_level =
          IF score > 70000 THEN "high"
          ELSE IF 40000 < score /\ score <= 70000 THEN "medium"
          ELSE "low"

\* C3 happens: a fetch that failed, on a URL whose score is exactly 0.7,
\* gave "medium".
C3_Witness ==
  /\ app = "main" /\ pc = "done" /\ result # NoResult
  /\ content_features.fetch_success = 0
  /\ calculate_url_confidence(extract_url_structure_features(url)) = 70000
  /\ result.threat_level = "medium"

\* C4: for every kind of transport failure the request ends in the
\* partial outcome: the normalization pipeline and the classifier are never
\* invoked, class and class probabilities are absent (not a default
\* distribution), the error field is set, and the lexical features are
\* attached.
C4_FetchFailureIsPartial ==
  ( /\ pc = "done" /\ result # NoResult
    /\ app = "api" => model # "None" /\ feature_transformer # "None"
    /\ content_features.fetch_success = 0 )
  => /\ invoked = {}
     /\ "class" \in DOMAIN result => result.class = "None"
     /\ "class_name" \in DOMAIN result => result.class_name = "None"
     /\ result.probabilities = NoneDict
     /\ "error" \in DOMAIN result /\ result.error # "None"
     /\ "url_features" \in DOMAIN result

\* C5: when classifier output is present, the threat level is the fixed
\* table in priority order: Malware Distribution -> high; Credential
\* Phishing with p > 0.7 -> high; Credential Phishing otherwise -> medium;
\* c > 0.6 -> medium (overriding Legitimate, also with p > 0.9); Legitimate
\* with p > 0.9 -> safe; everything else -> low (p the maximum class
\* probability, c the lexical confidence).
C5_ThreatLevelTable ==
  ( /\ app = "main" /\ pc = "done" /\ result # NoResult
    /\ "class_id" \in DOMAIN result )
  => LET p == max_value(result.probabilities)
         c == calculate_url_confidence(extract_url_structure_features(url))
     IN result.threat_level =
          IF result.class = "Malware Distribution" THEN "high"
          ELSE IF result.class = "Credential Phishing" /\ p > 70000
            THEN "high"
          ELSE IF result.class = "Credential Phishing" THEN "medium"
          ELSE IF c > 60000 THEN "medium"
          ELSE IF result.class = "Legitimate" /\ p > 90000 THEN "safe"
          ELSE "low"

\* C5 happens: a Legitimate classification with p > 0.9 on a URL with
\* c > 0.6 came out "medium".
C5_Witness ==
  /\ app = "main" /\ pc = "done" /\ result # NoResult
  /\ "class_id" \in DOMAIN result
  /\ result.class = "Legitimate"
  /\ max_value(result.probabilities) > 90000
  /\ calculate_url_confidence(extract_url_structure_features(url)) > 60000
  /\ result.threat_level = "medium"

\* C6: if no trained model is available, classification does not crash
\* and yields an explicit model-unavailable condition: what it returns
\* never carries the class "Legitimate" or a probability distribution.
C6_ModelUnavailableIsExplicit ==
  /\ ( /\ app = "main" /\ pc = "done"
       /\ classifier = "None" \/ pipeline = "None" )
     => /\ response.error # "None"
        /\ response.class_name # "Legitimate"
        /\ response.probabilities = NoneDict
  /\ ( /\ app = "api" /\ pc = "done"
       /\ model = "None" \/ feature_transformer = "None" )
     => /\ result.class_name # "Legitimate"
        /\ result.probabilities = NoneDict

\* The ordinal order unknown < low < suspicious < medium < high.
Rank(level) ==
  CASE level = "unknown" -> 0
    [] level = "low" -> 1
    [] level = "suspicious" -> 2
    [] level = "medium" -> 3
    [] level = "high" -> 4

\* C7: folding in a reputation report never lowers the threat level: the
\* combined level is the maximum, in the order unknown < low < suspicious
\* < medium < high, of the level the other signals established and the
\* reputation level, so it is at least the level returned without the
\* report.
C7_ReputationNeverLowers ==
  (app = "api" /\ pc = "done") =>
    LET without == ml_threat_level(ml_result)
        reputation == reported_threat_level(result.threat_intelligence)
    IN /\ Rank(result.threat_level) = Max(Rank(without), Rank(reputation))
       /\ Rank(result.threat_level) >= Rank(without)

\* C7 happens: a successful report whose level is below the level of the
\* other signals was folded in, and the level stayed.
C7_Witness ==
  /\ app = "api" /\ pc = "done"
  /\ "url_analysis" \in DOMAIN result.threat_intelligence
  /\ "status" \in DOMAIN result.threat_intelligence.url_analysis
  /\ result.threat_intelligence.url_analysis.status = "success"
  /\ Rank(result.threat_intelligence.url_analysis.threat_level)
       < Rank(ml_threat_level(ml_result))
  /\ result.threat_level = ml_threat_level(ml_result)

\* C8: final_confidence equals 0.7 * (maximum class probability) + 0.3 *
\* (lexical confidence) whenever both signals are present, and equals the
\* single available signal unscaled when only one is present: on fetch
\* failure final_confidence is the lexical confidence.
C8_FinalConfidence ==
  (app = "main" /\ pc = "done" /\ result # NoResult
     /\ "raised" \notin DOMAIN result)
  => LET c == calculate_url_confidence(extract_url_structure_features(url))
     IN /\ "final_confidence" \in DOMAIN result
        /\ result.final_confidence =
             IF content_features.fetch_success = 1
               THEN (7 * max_value(result.probabilities) + 3 * c) \div 10
               ELSE c

\* C9: on a successfully fetched page with has_excessive_domains = 1 and
\* has_obfuscated_js = 1 the verdict's threat_level is never "safe",
\* whatever class and probabilities the classifier returns.
C9_FlaggedPageNeverSafe ==
  ( /\ pc = "done" /\ result # NoResult
    /\ content_features.fetch_success = 1
    /\ content_features.has_excessive_domains = 1
    /\ content_features.has_obfuscated_js = 1
    /\ "threat_level" \in DOMAIN result )
  => result.threat_level # "safe"

\* C10: for every lexical feature vector calculate_url_confidence returns
\* a value in [0, 0.95]: the weighted sum clamped below at 0 and above at
\* 0.95, so never 1.0.
C10_UrlConfidenceRange ==
  (app = "lexical" /\ pc = "done") =>
    LET sum == risk_score(extract_url_structure_features(url))
        score == result.url_features.url_confidence_score
    IN /\ score \in 0..95000
       /\ score # Scale
       /\ score = IF sum < 0 THEN 0 ELSE IF sum > 95000 THEN 95000 ELSE sum

\* C10 happens: a feature vector whose weighted sum is above 1.0 was
\* scored 0.95.
C10_Witness ==
  /\ app = "lexical" /\ pc = "done"
  /\ risk_score(extract_url_structure_features(url)) > Scale
  /\ result.url_features.url_confidence_score = 95000

\* C11: lexical confidence is monotonically non-increasing in domain age:
\* for two feature vectors identical except for domain_age_days a <= b
\* (both known, >= 0), confidence(a) >= confidence(b), and ages beyond 730
\* days give no further reduction.
C11_ConfidenceMonotoneInAge ==
  (app = "lexical" /\ pc = "done") =>
    LET f == extract_url_structure_features(url)
        a == f.domain_age_days
        score == result.url_features.url_confidence_score
    IN a >= 0 =>
         \A b \in { d \in DomainAges : d >= a } :
           LET other ==
                 calculate_url_confidence([f EXCEPT !.domain_age_days = b])
           IN /\ score >= other
              /\ a >= 730 => score = other

\* C11 happens: a vector of age 730 scored above 0, the same as at age
\* 1000 and strictly below the same vector at age 200.
C11_Witness ==
  /\ app = "lexical" /\ pc = "done" /\ ~url.malformed
  /\ url.f.domain_age_days = 730
  /\ result.url_features.url_confidence_score > 0
  /\ result.url_features.url_confidence_score =
       calculate_url_confidence(
         [extract_url_structure_features(url)
            EXCEPT !.domain_age_days = 1000])
  /\ result.url_features.url_confidence_score <
       calculate_url_confidence(
         [extract_url_structure_features(url)
            EXCEPT !.domain_age_days = 200])

\* C12: the lexical analyzer never fails: for malformed input (URL parsing
\* raises) it returns the default all-zero feature vector together with a
\* confidence of 0.5.
C12_MalformedScoresHalf ==
  (app = "lexical" /\ pc = "done" /\ url.malformed
     /\ "url_features" \in DOMAIN result) =>
    /\ extract_url_structure_features(url) = DefaultFeatures
    /\ \A k \in DOMAIN result.url_features \ {"url_confidence_score"} :
         result.url_features[k] = 0
    /\ result.url_features.url_confidence_score = 50000

\* C13: for any URL whose host is a literal IP address and that contains
\* at least one login keyword, has_ip_address is 1 and, with no network
\* access (fetch failed), threat_level is "medium" or "high", for every
\* value of the remaining lexical features including every domain age.
C13_IpLoginAtLeastMedium ==
  ( /\ app = "lexical" /\ pc = "done"
    /\ "threat_level" \in DOMAIN result
    /\ ~url.malformed
    /\ url.host \in {"ipv4", "ipv6"}
    /\ url.f.has_login_keywords >= 1 )
  => /\ result.url_features.has_ip_address = 1
     /\ result.threat_level \in {"medium", "high"}

\* C14: every unsuccessful fetch (fetch_success = 0, anything other than a
\* 200 response with a readable body) carries a non-null typed error
\* string in the fetch result.
C14_FailedFetchHasError ==
  ( /\ pc = "fetched"
    /\ extract_content_features(fetch_result).fetch_success = 0 )
  => fetch_result.error # "None"

\* C15: fetch_content always terminates after at most max_retries + 1
\* attempts: it stops at the first attempt that receives a 200 response,
\* retries after every failed attempt while attempts remain, and waits the
\* fixed delay only between attempts, never after the last attempt or
\* after a success.
C15_FetchTerminates ==
  /\ [](attempt \in 0..max_retries /\ sleeps = attempt)
  /\ [][ pc = "fetch" =>
           IF fetch_result'.status_code = 200
             THEN pc' = "fetched" /\ attempt' = attempt /\ sleeps' = sleeps
           ELSE IF attempt < max_retries
             THEN /\ pc' = "fetch"
                  /\ attempt' = attempt + 1
                  /\ sleeps' = sleeps + 1
           ELSE pc' = "fetched" /\ attempt' = attempt /\ sleeps' = sleeps
       ]_vars
  /\ [][pc = "fetched" => pc' = "fetched"]_vars
  /\ <>(pc = "fetched")

\* C15 happens: two failed attempts, each followed by one wait, then a
\* third attempt that received a 200 response and ended the loop.
C15_Witness ==
  /\ app = "fetch" /\ pc = "fetched"
  /\ attempt = max_retries /\ sleeps = max_retries
  /\ fetch_result.status_code = 200
  /\ fetch_result.error # "None"

\* C16: in a batch, the failure of any individual URL's task does not
\* abort the batch: classify_batch over n URLs still returns exactly n
\* results, result i belonging to input URL i in input order, and the
\* results for the other URLs are the same as if the failing URL had not
\* been in the batch.
C16_BatchIsolatesFailures ==
  (app = "batch" /\ pc = "done") =>
    /\ ~batch.raised
    /\ Len(batch.results) = Len(batch.urls)
    /\ \A i \in 1..Len(batch.urls) :
         /\ batch.results[i].url = batch.urls[i]
         /\ batch.results[i] =
              [url |-> batch.urls[i]]
                @@ classify_url(batch.urls[i], batch.rows[i], batch.clfs[i])

\* The training a transformer or a model comes from: the binary artifacts
\* (feature_transformer_binary.pkl, binary_ensemble.pkl) or the 3-class
\* ones (feature_transformer.pkl, ensemble_model.pkl).
C17_Training(artifact) == IF artifact = "binary" THEN "binary" ELSE "3-class"

\* C17: whenever a URL is scored, the normalization state and the model in
\* use come from the same training, both binary or both 3-class: a
\* mismatched transformer/model pair never reaches transform and predict.
C17_SameTrainingWhenScored ==
  /\ (app = "main" /\ pc = "done" /\ "predict" \in invoked)
       => C17_Training(pipeline) = C17_Training(classifier)
  /\ (app = "api" /\ pc = "done" /\ "predict" \in invoked)
       => C17_Training(feature_transformer) = C17_Training(model)

\* C18: after fit_transform has written its transformer, a pipeline on the
\* same output_dir that calls load_transformer and then transform returns
\* exactly what the fitting pipeline's transform returns on the same
\* frame, whatever other files output_dir holds.
C18_ReloadReproducesFit ==
  LET fp == feature_pipeline
  IN ( /\ app = "pipeline"
       /\ fp.op.name = "transform"
       /\ fp.fit_by # "None"
       /\ fp.origin[fp.fit_by] = "fit_transform"
       /\ fp.op.self \in fp.loaded_since
       /\ fp.origin[fp.op.self] = "load_transformer" )
     => fp.op.returned = transform(fp.transformer[fp.fit_by], fp.op.features)

\* C19: in any sequence of FeaturePipeline calls, transform succeeds only
\* if a fit_transform or a successful load_transformer of the same
\* pipeline came before it; otherwise it raises the not-fitted ValueError
\* and changes neither a pipeline nor a file.  A load_transformer that
\* finds no file returns False and leaves the pipeline as it was, so a
\* pipeline is unfitted exactly as long as neither has happened.
C19_TransformNeedsFit ==
  /\ [](app = "pipeline" =>
          \A p \in Pipelines :
            (feature_pipeline.origin[p] = "None")
              <=> (feature_pipeline.transformer[p] = NoTransformer))
  /\ [](feature_pipeline.op.name = "transform" =>
          IF feature_pipeline.origin[feature_pipeline.op.self] = "None"
            THEN feature_pipeline.op.returned = Raised("ValueError")
            ELSE /\ feature_pipeline.op.returned.raised = "None"
                 /\ feature_pipeline.op.returned.ok)
  /\ [][ ( /\ feature_pipeline'.op.name = "transform"
           /\ feature_pipeline'.op.returned.raised # "None" )
         => /\ feature_pipeline'.transformer = feature_pipeline.transformer
            /\ feature_pipeline'.disk = feature_pipeline.disk
            /\ feature_pipeline'.origin = feature_pipeline.origin ]_vars
  /\ [][ ( /\ feature_pipeline'.op.name = "load_transformer"
           /\ existing(feature_pipeline.disk) = {} )
         => /\ ~feature_pipeline'.op.returned.ok
            /\ feature_pipeline'.transformer = feature_pipeline.transformer
            /\ feature_pipeline'.disk = feature_pipeline.disk ]_vars

\* C19 happens: a pipeline that was neither fitted nor loaded is asked to
\* transform and raises, although the other pipeline has been fitted and
\* has written its file.
C19_Witness ==
  /\ app = "pipeline"
  /\ feature_pipeline.op.name = "transform"
  /\ feature_pipeline.op.returned = Raised("ValueError")
  /\ feature_pipeline.origin[feature_pipeline.op.self] = "None"
  /\ \E q \in Pipelines : feature_pipeline.origin[q] = "fit_transform"
  /\ feature_pipeline.disk["feature_transformer_binary.pkl"] = NoFile

\* C20: model loading follows availability with a fixed preference: the
\* binary model is loaded whenever binary_ensemble.pkl is present,
\* otherwise the 3-class ensemble when ensemble_model.pkl is present, and
\* the loader ends without a model only when neither file is present.
\* Stated of PhishingEnsembleClassifier.load_model over every directory
\* and of the module-level loading of src/api/predict.py.
C20_LoadsByAvailability ==
  /\ \A disk \in SUBSET ArtifactFiles :
       /\ "binary_ensemble.pkl" \in disk => load_model(disk) = "binary"
       /\ ( /\ "binary_ensemble.pkl" \notin disk
            /\ "ensemble_model.pkl" \in disk ) => load_model(disk) = "ensemble"
       /\ load_model(disk) = "None"
            => disk \cap {"binary_ensemble.pkl", "ensemble_model.pkl"} = {}
  /\ (app = "api" /\ vt_api = "client") =>
       /\ "binary_ensemble.pkl" \in files
            => model = "binary" /\ model_name = "binary_ensemble"
       /\ ( /\ "binary_ensemble.pkl" \notin files
            /\ "ensemble_model.pkl" \in files )
            => model = "ensemble" /\ model_name = "ensemble"
       /\ model = "None"
            => files \cap {"binary_ensemble.pkl", "ensemble_model.pkl"} = {}

\* C21: missing credentials of the reputation provider stay with that
\* provider: the scoring module still loads, with the model and the
\* transformer its artifacts give, and takes requests.
C21_MissingCredentialsIsolated ==
  (app = "api" /\ vt_api = "ValueError") =>
    /\ pc # "import_failed"
    /\ model = api_load(files).model
    /\ feature_transformer = api_load(files).feature_transformer

\* C22: every report a reputation provider returned carries a status
\* field that is 'success' or 'error'; a provider timeout, exception or
\* non-success API response gives a report with status = 'error'.
C22_ReportHasStatus ==
  ( /\ app = "api" /\ pc = "done"
    /\ "url_analysis" \in DOMAIN result.threat_intelligence ) =>
    LET report == result.threat_intelligence.url_analysis
    IN /\ "status" \in DOMAIN report
       /\ report.status \in {"success", "error"}
       /\ "error" \in DOMAIN report => report.status = "error"

\* C23: for all non-negative detection counts, the level of a provider's
\* report is 'high' if (malicious + suspicious) / total > 0.3, else
\* 'medium' if the ratio > 0.1, else 'low' if malicious = suspicious = 0,
\* otherwise 'suspicious'.
C23_ReportLevelTable ==
  ( /\ app = "api" /\ pc = "done"
    /\ "url_analysis" \in DOMAIN result.threat_intelligence
    /\ "total" \in DOMAIN result.threat_intelligence.url_analysis ) =>
    LET r == result.threat_intelligence.url_analysis
    IN r.threat_level =
         IF 10 * (r.malicious + r.suspicious) > 3 * r.total THEN "high"
         ELSE IF 10 * (r.malicious + r.suspicious) > r.total THEN "medium"
         ELSE IF r.malicious = 0 /\ r.suspicious = 0 THEN "low"
         ELSE "suspicious"

\* C23 as amended: the table of C23 holds for the reports with total > 0,
\* and a report with total = 0 has the level 'unknown'.
C23_ReportLevelTableAmended ==
  ( /\ app = "api" /\ pc = "done"
    /\ "url_analysis" \in DOMAIN result.threat_intelligence
    /\ "total" \in DOMAIN result.threat_intelligence.url_analysis ) =>
    LET r == result.threat_intelligence.url_analysis
    IN r.threat_level =
         IF r.total = 0 THEN "unknown"
         ELSE IF 10 * (r.malicious + r.suspicious) > 3 * r.total THEN "high"
         ELSE IF 10 * (r.malicious + r.suspicious) > r.total THEN "medium"
         ELSE IF r.malicious = 0 /\ r.suspicious = 0 THEN "low"
         ELSE "suspicious"

\* C23 happens: a report with one detection among ten engines, a ratio of
\* exactly 0.1, is 'suspicious'.
C23_Witness ==
  /\ app = "api" /\ pc = "done"
  /\ "url_analysis" \in DOMAIN result.threat_intelligence
  /\ "total" \in DOMAIN result.threat_intelligence.url_analysis
  /\ result.threat_intelligence.url_analysis.total = 10
  /\ result.threat_intelligence.url_analysis.malicious = 1
  /\ result.threat_intelligence.url_analysis.threat_level = "suspicious"

\* C24: every failure result shown to the user (the fetch failed, the
\* prediction or the pipeline raised) carries both a technical error
\* message and a human-readable explanation of it.
C24_FailureIsExplained ==
  /\ ( /\ app = "main" /\ pc = "done"
       /\ classifier # "None" /\ pipeline # "None"
       /\ response.error # "None" )
       => "error_details" \in DOMAIN response
  /\ ( /\ app = "api" /\ pc = "done"
       /\ model # "None" /\ feature_transformer # "None"
       /\ content_features.fetch_success = 0 \/ invoked = {"transform"} )
       => /\ "error" \in DOMAIN result
          /\ "error_details" \in DOMAIN result

\* C25: scoring is deterministic: a second run on the identical URL, with
\* the identical fetched page (here none: the fetch failed both times) and
\* the same loaded artifacts, returns the identical feature vector and the
\* identical result; no registry lookup made during scoring changes it.
C25_ScoringIsDeterministic ==
  (app = "lexical" /\ pc = "done") =>
    \A v \in same_url_again(url, DomainAges) :
      IF "threat_level" \in DOMAIN result
        THEN partial_result(extract_url_features(v)) = result
        ELSE extract_url_features(v) = result.url_features

\* C26: the loaded normalization state is read-only after loading: no
\* inference call (transform) changes a pipeline or a file, and a
\* retraining (fit_transform) writes a new artifact, leaving every file
\* written before and every transformer already loaded as it was.
C26_LoadedStateReadOnly ==
  [][ /\ feature_pipeline'.op.name = "transform"
        => /\ feature_pipeline'.transformer = feature_pipeline.transformer
           /\ feature_pipeline'.disk = feature_pipeline.disk
      /\ feature_pipeline'.op.name = "fit_transform"
        => /\ \A f \in existing(feature_pipeline.disk) :
                feature_pipeline'.disk[f] = feature_pipeline.disk[f]
           /\ \A p \in Pipelines :
                feature_pipeline.origin[p] = "load_transformer"
                  => feature_pipeline'.transformer[p]
                       = feature_pipeline.transformer[p] ]_vars

\* C27: the result of fetch_content describes the final attempt only:
\* when it returns with html set, error is None and status_code is 200,
\* and when it returns a failure, status_code and error are the ones the
\* last attempt alone gives, whatever the attempts before it did.
C27_ResultIsOfLastAttempt ==
  (app = "fetch" /\ pc = "fetched") =>
    /\ html_truthy(fetch_result)
         => fetch_result.error = "None" /\ fetch_result.status_code = 200
    /\ \E o \in AttemptOutcomes :
         fetch_result = fetch_attempt(InitialFetchResult, o)

\* C28: the failed outcome is produced only when the prediction raised:
\* whenever predict(url) returns normally, as it does in every run here,
\* predict_enhanced_with_explanation returns that result unchanged, without
\* error_details.
C28_FailedOnlyWhenPredictRaised ==
  (app = "enhanced" /\ pc = "done") =>
    /\ response = result
    /\ "error_details" \notin DOMAIN response

\* C29: the batched entry point agrees with the single one: for every
\* URL of the batch whose own fetch outcome and classifier output give a
\* result in classify_url, classify_batch returns at that URL's position
\* a result with the same class, probabilities, threat_level,
\* final_confidence, error and lexical features.
C29_BatchAgreesWithSingle ==
  (app = "batch" /\ pc = "done") =>
    \A i \in 1..Len(batch.clfs) :
      LET single == classify_url(batch.urls[i], batch.rows[i], batch.clfs[i])
      IN "raised" \notin DOMAIN single =>
           /\ i <= Len(batch.results)
           /\ [ k \in DOMAIN batch.results[i] \ {"url"} |->
                  batch.results[i][k] ] = single

\* C30: after any sequence of train and load_model calls on one
\* PhishingEnsembleClassifier, base_models holds at most one model per
\* entry of model_types and its i-th model is of type model_types[i], so
\* the lookup of evaluate is in range and names the right model.
C30_BaseModelsMatchTypes ==
  app = "classifier" =>
    /\ Len(ensemble_classifier.base_models) <= Len(model_types)
    /\ \A i \in 1..Len(ensemble_classifier.base_models) :
         i <= Len(model_types)
           => ensemble_classifier.base_models[i] = model_types[i]
    /\ ensemble_classifier.evaluated.raised # "IndexError"

====
